---------------------------- MODULE Spec2Model ----------------------------
(***************************************************************************)
(* dollar-rates: the rate-acquisition subsystem of src/main.rs and         *)
(* src/fetchers.rs.  Three fetchers (banreservas, bhd, popular) run        *)
(* concurrently inside update_all_rates (tokio::join!), their results are  *)
(* flattened and upserted one at a time; rocket() runs one cycle and then  *)
(* spawns rate_updater, which runs a cycle on every tick of a tokio        *)
(* interval.                                                               *)
(*                                                                         *)
(* Text is modelled as a sequence of tokens, a token being a record        *)
(* [k, v]: k is the kind of the token and v the number it carries.         *)
(*   "dec"  digits '.' digits        (matches \d+\.\d+ and \d+\.?\d* )     *)
(*   "int"  digits with no fraction  (matches \d+\.?\d* only)              *)
(*   "txt"  anything that is not a number                                  *)
(* Time is counted in units of 15 minutes.                                 *)
(***************************************************************************)
EXTENDS Integers, Sequences, FiniteSets, TLC

\* ------------------------------------------------------------------ bounds
MaxCycles == 3
MaxTime == 2
MaxHtmlLen == 4
MaxXmlLen == 3
MaxJsonLen == 2
MaxLog == 2

\* rate_updater(updater_pool, 30): the period, in units of 15 minutes
Period == 2

Sources == {"banreservas", "bhd", "popular"}
SimpleSources == {"banreservas", "bhd"}
Tasks == {"main", "updater"}

\* ------------------------------------------------------------------ values
Tok(k, v) == [k |-> k, v |-> v]

IsDec(t) == t.k = "dec"
\* the capture group (\d+\.?\d*) of parse_popular_xml
IsNum(t) == t.k \in {"dec", "int"}

\* Option<FetchedRate>: <<>> is None, <<r>> is Some(r)
None == <<>>
Some(r) == <<r>>

FetchedRate(name, class, buy, sell) ==
    [bank_name |-> name, bank_class |-> class,
     dollar_buy_rate |-> buy, dollar_sell_rate |-> sell]

\* str::parse::<f64>() of a captured text: Some(value) for a number
ParseF64(t) == IF IsNum(t) THEN Some(t.v) ELSE None

Min(S) == CHOOSE x \in S : \A y \in S : x <= y

\* ---------------------------------------------------------------- parsers
\* positions where `label` is directly followed by a \d+\.\d+ number
LabelledAt(html, label) ==
    {i \in 1..(Len(html) - 1) : html[i].k = label /\ IsDec(html[i + 1])}

\* fetch_banreservas, the regex (?s)Compra\s*(\d+\.\d+).*?Venta\s*(\d+\.\d+)
\* and the two parse() calls: the leftmost Compra-number that a Venta-number
\* follows, and the nearest Venta-number after it
ParseBanreservas(html) ==
    LET cs == {i \in LabelledAt(html, "Compra") :
                 \E j \in LabelledAt(html, "Venta") : j >= i + 2}
    IN  IF cs = {} THEN None
        ELSE LET i == Min(cs)
                 j == Min({j \in LabelledAt(html, "Venta") : j >= i + 2})
                 buy == ParseF64(html[i + 1])
                 sell == ParseF64(html[j + 1])
             IN  IF buy = None \/ sell = None THEN None
                 ELSE Some(FetchedRate("Banreservas", "banreservas",
                                       buy[1], sell[1]))

\* A JSON document: [ok, rates]; ok is FALSE when the text is not JSON or has
\* no data.attributes.exchangeRates array; an entry is [currency, buy, sell],
\* buy and sell tokens ("txt": a string, a null or a missing field).
JsonDecodes(json) ==
    /\ json.ok
    /\ \A i \in 1..Len(json.rates) :
          IsNum(json.rates[i].buy) /\ IsNum(json.rates[i].sell)

\* fetch_bhd: response.json::<BhdApiResponse>() then find(currency == "USD")
ParseBhd(json) ==
    IF ~JsonDecodes(json) THEN None
    ELSE LET us == {i \in 1..Len(json.rates) : json.rates[i].currency = "USD"}
         IN  IF us = {} THEN None
             ELSE LET usd == json.rates[Min(us)]
                  IN  Some(FetchedRate("BHD", "bhd", usd.buy.v, usd.sell.v))

\* An XML document: a sequence of elements [tag, k, v], the element's content
\* being the token [k, v].  <d:TAG[^>]*>(\d+\.?\d*)</d:TAG> finds the first
\* element TAG whose whole content is a number.
FirstNumeric(xml, tag) ==
    LET is == {i \in 1..Len(xml) : xml[i].tag = tag /\ IsNum(xml[i])}
    IN  IF is = {} THEN None ELSE Some(xml[Min(is)])

parse_popular_xml_default_sell(xml) ==
    LET b == FirstNumeric(xml, "DollarBuyRate")
        s == FirstNumeric(xml, "DollarSellRate")
    IN  IF b = None THEN None
        ELSE Some(FetchedRate("Banco Popular", "popular", b[1].v,
                              IF s = None THEN 0 ELSE s[1].v))

parse_popular_xml(xml) ==
    LET b == FirstNumeric(xml, "DollarBuyRate")
        s == FirstNumeric(xml, "DollarSellRate")
    IN  IF b = None THEN None
        ELSE IF ParseF64(b[1]) = None THEN None
        ELSE IF s = None THEN None
        ELSE IF ParseF64(s[1]) = None THEN None
        ELSE Some(FetchedRate("Banco Popular", "popular", b[1].v, s[1].v))

\* -------------------------------------------------------------- responses
\* The result of send().await: a transport error, or a response whose body is
\* still to be read (readable = FALSE: the body read fails).
TransportError == [err |-> TRUE, status |-> 0, readable |-> FALSE, body |-> <<>>]
Response(status, readable, body) ==
    [err |-> FALSE, status |-> status, readable |-> readable, body |-> body]

\* StatusCode::is_success
is_success(status) == status >= 200 /\ status < 300

HtmlRates == <<Tok("Compra", 0), Tok("dec", 1), Tok("Venta", 0), Tok("dec", 2)>>
HtmlOnlyBuy == <<Tok("txt", 0), Tok("Compra", 0), Tok("dec", 1)>>

JsonEntry(currency, buy, sell) == [currency |-> currency, buy |-> buy, sell |-> sell]
JsonRates == [ok |-> TRUE,
              rates |-> <<JsonEntry("EUR", Tok("dec", 3), Tok("dec", 4)),
                          JsonEntry("USD", Tok("dec", 1), Tok("int", 2))>>]
JsonNoUsd == [ok |-> TRUE, rates |-> <<JsonEntry("EUR", Tok("dec", 3), Tok("dec", 4))>>]

Elem(tag, k, v) == [tag |-> tag, k |-> k, v |-> v]
XmlRatesA == <<Elem("DollarBuyRate", "dec", 1), Elem("DollarSellRate", "dec", 2)>>
XmlRatesB == <<Elem("DollarSellRate", "dec", 4), Elem("DollarBuyRate", "int", 3)>>
XmlOnlyBuy == <<Elem("DollarBuyRate", "dec", 1), Elem("DollarSellRate", "txt", 0)>>

HomeWithScript == <<Tok("txt", 0), Tok("IncapsulaSrc", 0)>>
HomePlain == <<Tok("txt", 0)>>

JsonMalformed == [ok |-> FALSE, rates |-> <<>>]

\* What the network may answer a request with.  Results: every kind of answer.
\* LeanResults: a transport error or a good answer.
Results ==
    [banreservas |->
        {TransportError, Response(200, TRUE, HtmlRates), Response(200, TRUE, HtmlOnlyBuy),
         Response(503, TRUE, HtmlRates), Response(200, FALSE, <<>>)},
     bhd |->
        {TransportError, Response(200, TRUE, JsonRates), Response(200, TRUE, JsonNoUsd),
         Response(200, TRUE, JsonMalformed), Response(503, TRUE, JsonRates)},
     proxy |->
        {TransportError, Response(200, TRUE, XmlRatesA), Response(200, TRUE, XmlRatesB),
         Response(200, TRUE, XmlOnlyBuy), Response(200, FALSE, <<>>),
         Response(503, TRUE, XmlRatesA)},
     home |->
        {TransportError, Response(200, TRUE, HomeWithScript),
         Response(403, TRUE, HomePlain), Response(200, FALSE, <<>>)},
     api |->
        {TransportError, Response(200, TRUE, XmlRatesA), Response(200, TRUE, XmlRatesB),
         Response(200, TRUE, XmlOnlyBuy), Response(200, FALSE, <<>>),
         Response(503, TRUE, XmlRatesA)}]

LeanResults ==
    [banreservas |-> {TransportError, Response(200, TRUE, HtmlRates)},
     bhd |-> {TransportError, Response(200, TRUE, JsonRates)},
     proxy |-> {TransportError, Response(200, TRUE, XmlRatesA),
                Response(200, TRUE, XmlRatesB)},
     home |-> {TransportError, Response(200, TRUE, HomeWithScript)},
     api |-> {TransportError, Response(200, TRUE, XmlRatesA),
              Response(200, TRUE, XmlRatesB)}]

\* ------------------------------------------------------------------- state
VARIABLES
    now,        \* the time
    proxyUrl,   \* whether POPULAR_PROXY_URL is set in the environment
    mainPc,     \* rocket(): "start", "initial" (in update_all_rates), "serving"
    updPc,      \* rate_updater: "unspawned", "spawned", "tick", "cycle"
    deadline,   \* the instant of the ticker's next tick
    cycles,     \* how many cycles have started
    lastEnd,    \* the instant the last cycle ended
    cpc,        \* per task, update_all_rates: "none", "fetch", "persist"
    fpc,        \* per task and source, where the fetcher is
    resp,       \* per task and source, the response whose body is being read
    out,        \* per task and source, the fetcher's Option<FetchedRate>
    trace,      \* per task, the requests and delays fetch_popular has begun
    proxyRes,   \* per task, what the proxy request of fetch_popular came to
    queue,      \* per task, the rates the for loop has yet to upsert
    upPc,       \* per task, upsert_rate: "exec" (the upsert), "log" (the log row)
    store,      \* the table bank_rates
    log,        \* the table bank_rates_log
    dbNow,      \* the database's NOW()
    lastGood,   \* per source, the rate of the last cycle that fetched and stored it
    pin,        \* the text handed to an extractor
    pout        \* <<>>, or <<r>> once the extractor has returned r

schedVars == <<now, mainPc, updPc, deadline, cycles, lastEnd>>
fetchVars == <<fpc, resp, out, trace, proxyRes>>
dbVars == <<store, log, dbNow, lastGood>>
parseVars == <<pin, pout>>
vars == <<now, proxyUrl, mainPc, updPc, deadline, cycles, lastEnd, cpc, fpc, resp, out,
          trace, proxyRes, queue, upPc, store, log, dbNow, lastGood, pin, pout>>

NoInput == [src |-> "none", ok |-> FALSE, body |-> <<>>]

Init ==
    /\ now = 0
    /\ proxyUrl \in BOOLEAN
    /\ mainPc = "start"
    /\ updPc = "unspawned"
    /\ deadline = 0
    /\ cycles = 0
    /\ lastEnd = 0
    /\ cpc = [t \in Tasks |-> "none"]
    /\ fpc = [t \in Tasks |-> [s \in Sources |-> "idle"]]
    /\ resp = [t \in Tasks |-> [s \in Sources |-> None]]
    /\ out = [t \in Tasks |-> [s \in Sources |-> None]]
    /\ trace = [t \in Tasks |-> <<>>]
    /\ proxyRes = [t \in Tasks |-> "unset"]
    /\ queue = [t \in Tasks |-> <<>>]
    /\ upPc = [t \in Tasks |-> "exec"]
    /\ store = {}
    /\ log = <<>>
    /\ dbNow = 1
    /\ lastGood = [s \in Sources |-> None]
    /\ pin = NoInput
    /\ pout = <<>>

\* ---------------------------------------------------------------- fetchers
Fetching(t, s, pc) == cpc[t] = "fetch" /\ fpc[t][s] = pc

\* the fetcher of source s returns r
Return(t, s, r) ==
    /\ fpc' = [fpc EXCEPT ![t][s] = "done"]
    /\ out' = [out EXCEPT ![t][s] = r]
    /\ resp' = [resp EXCEPT ![t][s] = None]

\* the fetcher of source s goes on to read the body of response r
ReadBody(t, s, r, pc) ==
    /\ fpc' = [fpc EXCEPT ![t][s] = pc]
    /\ resp' = [resp EXCEPT ![t][s] = Some(r)]
    /\ UNCHANGED out

BanreservasSend(t, r) ==
    /\ Fetching(t, "banreservas", "send")
    /\ IF r.err THEN Return(t, "banreservas", None) ELSE ReadBody(t, "banreservas", r, "body")
    /\ UNCHANGED <<trace, proxyRes>>

\* fetch_banreservas, text().await and the extraction
BanreservasBody(t) ==
    /\ Fetching(t, "banreservas", "body")
    /\ LET r == resp[t]["banreservas"][1]
       IN  Return(t, "banreservas",
                  IF r.readable THEN ParseBanreservas(r.body) ELSE None)
    /\ UNCHANGED <<trace, proxyRes>>

\* fetch_bhd, send().await: the status is not looked at
BhdSend(t, r) ==
    /\ Fetching(t, "bhd", "send")
    /\ IF r.err THEN Return(t, "bhd", None) ELSE ReadBody(t, "bhd", r, "body")
    /\ UNCHANGED <<trace, proxyRes>>

\* fetch_bhd, json().await and the search for USD
BhdBody(t) ==
    /\ Fetching(t, "bhd", "body")
    /\ LET r == resp[t]["bhd"][1]
       IN  Return(t, "bhd", IF r.readable THEN ParseBhd(r.body) ELSE None)
    /\ UNCHANGED <<trace, proxyRes>>

\* fetch_popular ---------------------------------------------------------
Begin(t, step) == trace' = [trace EXCEPT ![t] = Append(@, step)]

\* script_re: src="(/_Incapsula_Resource\?SWJIYLWA=[^"]+)"
HasChallengeScript(html) == \E i \in 1..Len(html) : html[i].k = "IncapsulaSrc"

\* the proxy request, lines 130-145, with a non-success status ending the fetch
PopularProxySendStrict(t, r) ==
    /\ Fetching(t, "popular", "proxy_send")
    /\ IF r.err \/ ~is_success(r.status)
       THEN /\ Return(t, "popular", None)
            /\ proxyRes' = [proxyRes EXCEPT ![t] =
                              IF r.err THEN "send_error" ELSE "status_bad"]
            /\ UNCHANGED trace
       ELSE /\ fpc' = [fpc EXCEPT ![t]["popular"] = "proxy_body"]
            /\ resp' = [resp EXCEPT ![t]["popular"] = Some(r)]
            /\ proxyRes' = [proxyRes EXCEPT ![t] = "status_ok"]
            /\ UNCHANGED <<out, trace>>

\* lines 130-145: send().await on the proxy URL, then the status
PopularProxySend(t, r) ==
    /\ Fetching(t, "popular", "proxy_send")
    /\ IF r.err
       THEN /\ Return(t, "popular", None)
            /\ proxyRes' = [proxyRes EXCEPT ![t] = "send_error"]
            /\ UNCHANGED trace
       ELSE IF is_success(r.status)
       THEN /\ fpc' = [fpc EXCEPT ![t]["popular"] = "proxy_body"]
            /\ resp' = [resp EXCEPT ![t]["popular"] = Some(r)]
            /\ proxyRes' = [proxyRes EXCEPT ![t] = "status_ok"]
            /\ UNCHANGED <<out, trace>>
       ELSE \* the client is built and the homepage requested (lines 148-158)
            /\ fpc' = [fpc EXCEPT ![t]["popular"] = "home_send"]
            /\ proxyRes' = [proxyRes EXCEPT ![t] = "status_bad"]
            /\ Begin(t, "home")
            /\ UNCHANGED <<out, resp>>

\* lines 141-142 with the direct chain run after the proxy's rates
PopularProxyBodyThenDirect(t) ==
    /\ Fetching(t, "popular", "proxy_body")
    /\ fpc' = [fpc EXCEPT ![t]["popular"] = "home_send"]
    /\ resp' = [resp EXCEPT ![t]["popular"] = None]
    /\ Begin(t, "home")
    /\ proxyRes' = [proxyRes EXCEPT ![t] = "body_ok"]
    /\ UNCHANGED out

\* lines 141-142: text().await of the proxy's response, then the extraction
PopularProxyBody(t) ==
    /\ Fetching(t, "popular", "proxy_body")
    /\ LET r == resp[t]["popular"][1]
       IN  /\ Return(t, "popular",
                     IF r.readable THEN parse_popular_xml(r.body) ELSE None)
           /\ proxyRes' = [proxyRes EXCEPT ![t] =
                             IF r.readable THEN "body_ok" ELSE "body_error"]
    /\ UNCHANGED trace

\* lines 157-161: send().await on the homepage
PopularHomeSend(t, r) ==
    /\ Fetching(t, "popular", "home_send")
    /\ IF r.err THEN Return(t, "popular", None)
       ELSE ReadBody(t, "popular", r, "home_body")
    /\ UNCHANGED <<trace, proxyRes>>

\* lines 163-177 with a homepage that links no challenge script ending the
\* fetch
PopularHomeBodyStrict(t) ==
    /\ Fetching(t, "popular", "home_body")
    /\ LET r == resp[t]["popular"][1]
           body == IF r.readable THEN r.body ELSE <<>>
       IN  IF HasChallengeScript(body)
           THEN /\ fpc' = [fpc EXCEPT ![t]["popular"] = "script_send"]
                /\ resp' = [resp EXCEPT ![t]["popular"] = None]
                /\ Begin(t, "script")
                /\ UNCHANGED out
           ELSE Return(t, "popular", None) /\ UNCHANGED trace
    /\ UNCHANGED proxyRes

\* lines 163-177: text().await.unwrap_or_default(), then the challenge script
\* is requested when the page links it, and the first delay begins otherwise
PopularHomeBody(t) ==
    /\ Fetching(t, "popular", "home_body")
    /\ LET r == resp[t]["popular"][1]
           body == IF r.readable THEN r.body ELSE <<>>
       IN  IF HasChallengeScript(body)
           THEN /\ fpc' = [fpc EXCEPT ![t]["popular"] = "script_send"]
                /\ Begin(t, "script")
           ELSE /\ fpc' = [fpc EXCEPT ![t]["popular"] = "sleep_500"]
                /\ Begin(t, "sleep_500")
    /\ resp' = [resp EXCEPT ![t]["popular"] = None]
    /\ UNCHANGED <<out, proxyRes>>

\* lines 170-177: the challenge request ends, whatever its result
PopularScriptSend(t) ==
    /\ Fetching(t, "popular", "script_send")
    /\ fpc' = [fpc EXCEPT ![t]["popular"] = "sleep_500"]
    /\ Begin(t, "sleep_500")
    /\ UNCHANGED <<out, resp, proxyRes>>

\* lines 177-183: the 500 ms are over, the homepage is requested again
PopularSleep500(t) ==
    /\ Fetching(t, "popular", "sleep_500")
    /\ fpc' = [fpc EXCEPT ![t]["popular"] = "home2_send"]
    /\ Begin(t, "home2")
    /\ UNCHANGED <<out, resp, proxyRes>>

\* lines 181-185: the second homepage request ends, whatever its result
PopularHome2Send(t) ==
    /\ Fetching(t, "popular", "home2_send")
    /\ fpc' = [fpc EXCEPT ![t]["popular"] = "sleep_300"]
    /\ Begin(t, "sleep_300")
    /\ UNCHANGED <<out, resp, proxyRes>>

\* lines 185-193: the 300 ms are over, the rates API is requested
PopularSleep300(t) ==
    /\ Fetching(t, "popular", "sleep_300")
    /\ fpc' = [fpc EXCEPT ![t]["popular"] = "api_send"]
    /\ Begin(t, "api")
    /\ UNCHANGED <<out, resp, proxyRes>>

\* lines 190-200: send().await on the rates API, then the status
PopularApiSend(t, r) ==
    /\ Fetching(t, "popular", "api_send")
    /\ IF r.err \/ ~is_success(r.status)
       THEN Return(t, "popular", None)
       ELSE ReadBody(t, "popular", r, "api_body")
    /\ UNCHANGED <<trace, proxyRes>>

\* lines 202-208: text().await of the API's response, then the extraction
PopularApiBody(t) ==
    /\ Fetching(t, "popular", "api_body")
    /\ LET r == resp[t]["popular"][1]
       IN  Return(t, "popular",
                  IF r.readable THEN parse_popular_xml(r.body) ELSE None)
    /\ UNCHANGED <<trace, proxyRes>>

\* ------------------------------------------------------------------ writer
\* INSERT ... ON CONFLICT (bank_class) DO UPDATE, lines 77-94, without the
\* ON CONFLICT clause
UpsertAlwaysInsert(rows, rate, ts) ==
    rows \cup {[bank_name |-> rate.bank_name, bank_class |-> rate.bank_class,
                dollar_buy_rate |-> rate.dollar_buy_rate,
                dollar_sell_rate |-> rate.dollar_sell_rate, updated_at |-> ts]}

\* lines 77-94 with dollar_sell_rate missing from DO UPDATE SET: a conflicting
\* row keeps its sell rate
UpsertKeepSell(rows, rate, ts) ==
    LET new == [bank_name |-> rate.bank_name, bank_class |-> rate.bank_class,
                dollar_buy_rate |-> rate.dollar_buy_rate,
                dollar_sell_rate |-> rate.dollar_sell_rate, updated_at |-> ts]
    IN  IF \E x \in rows : x.bank_class = rate.bank_class
        THEN {IF x.bank_class = rate.bank_class
              THEN [new EXCEPT !.dollar_sell_rate = x.dollar_sell_rate]
              ELSE x : x \in rows}
        ELSE rows \cup {new}

\* INSERT ... ON CONFLICT (bank_class) DO UPDATE SET ..., lines 77-94.  A row
\* is [bank_name, bank_class, dollar_buy_rate, dollar_sell_rate, updated_at];
\* id and created_at, which the statement does not name, are left out.
Upsert(rows, rate, ts) ==
    LET new == [bank_name |-> rate.bank_name, bank_class |-> rate.bank_class,
                dollar_buy_rate |-> rate.dollar_buy_rate,
                dollar_sell_rate |-> rate.dollar_sell_rate, updated_at |-> ts]
    IN  IF \E x \in rows : x.bank_class = rate.bank_class
        THEN {IF x.bank_class = rate.bank_class THEN new ELSE x : x \in rows}
        ELSE rows \cup {new}

\* upsert_rate with its error handed up by `?`: a failing upsert ends the
\* for loop of update_all_rates
UpsertExecAbort(t, ok) ==
    /\ cpc[t] = "persist" /\ upPc[t] = "exec" /\ queue[t] # <<>>
    /\ LET rate == Head(queue[t])
       IN  IF ok
           THEN /\ store' = Upsert(store, rate, dbNow)
                /\ dbNow' = dbNow + 1
                /\ lastGood' = [lastGood EXCEPT ![rate.bank_class] =
                                  out[t][rate.bank_class]]
                /\ upPc' = [upPc EXCEPT ![t] = "log"]
                /\ UNCHANGED queue
           ELSE /\ queue' = [queue EXCEPT ![t] = <<>>]
                /\ UNCHANGED <<store, dbNow, lastGood, upPc>>
    /\ UNCHANGED <<log, schedVars, fetchVars, cpc, proxyUrl, parseVars>>

\* upsert_rate, lines 77-101: the upsert statement ends, well or not
UpsertExec(t, ok) ==
    /\ cpc[t] = "persist" /\ upPc[t] = "exec" /\ queue[t] # <<>>
    /\ LET rate == Head(queue[t])
       IN  IF ok
           THEN /\ store' = Upsert(store, rate, dbNow)
                /\ dbNow' = dbNow + 1
                /\ lastGood' = [lastGood EXCEPT ![rate.bank_class] =
                                  out[t][rate.bank_class]]
                /\ upPc' = [upPc EXCEPT ![t] = "log"]
                /\ UNCHANGED queue
           ELSE /\ queue' = [queue EXCEPT ![t] = Tail(@)]
                /\ UNCHANGED <<store, dbNow, lastGood, upPc>>
    /\ UNCHANGED <<log, schedVars, fetchVars, cpc, proxyUrl, parseVars>>

\* upsert_rate with the two statements in one transaction: a failing insert
\* into bank_rates_log takes the upserted row back
LogInsertRollback(t, ok) ==
    /\ cpc[t] = "persist" /\ upPc[t] = "log"
    /\ ok => Len(log) < MaxLog
    /\ log' = IF ok THEN Append(log, Head(queue[t])) ELSE log
    /\ store' = IF ok THEN store
                ELSE {x \in store : x.bank_class # Head(queue[t]).bank_class}
    /\ queue' = [queue EXCEPT ![t] = Tail(@)]
    /\ upPc' = [upPc EXCEPT ![t] = "exec"]
    /\ UNCHANGED <<dbNow, lastGood, schedVars, fetchVars, cpc, proxyUrl,
                   parseVars>>

\* upsert_rate, lines 103-111: the insert into bank_rates_log ends, well or not
LogInsert(t, ok) ==
    /\ cpc[t] = "persist" /\ upPc[t] = "log"
    /\ ok => Len(log) < MaxLog
    /\ log' = IF ok THEN Append(log, Head(queue[t])) ELSE log
    /\ queue' = [queue EXCEPT ![t] = Tail(@)]
    /\ upPc' = [upPc EXCEPT ![t] = "exec"]
    /\ UNCHANGED <<store, dbNow, lastGood, schedVars, fetchVars, cpc, proxyUrl,
                   parseVars>>

\* ------------------------------------------------------------ orchestrator
\* update_all_rates, lines 118-124: the three fetchers are polled and each
\* sends its first request
StartCycle(t) ==
    /\ cpc' = [cpc EXCEPT ![t] = "fetch"]
    /\ fpc' = [fpc EXCEPT ![t] =
                 [s \in Sources |->
                    IF s # "popular" THEN "send"
                    ELSE IF proxyUrl THEN "proxy_send" ELSE "home_send"]]
    /\ trace' = [trace EXCEPT ![t] = IF proxyUrl THEN <<"proxy">> ELSE <<"home">>]
    /\ out' = [out EXCEPT ![t] = [s \in Sources |-> None]]
    /\ resp' = [resp EXCEPT ![t] = [s \in Sources |-> None]]
    /\ proxyRes' = [proxyRes EXCEPT ![t] = "unset"]
    /\ cycles' = cycles + 1

\* the requests StartCycle sends are all outstanding
FirstRequestsOut(t) ==
    /\ cpc[t] = "fetch"
    /\ \A s \in Sources : fpc[t][s] \in {"send", "proxy_send", "home_send"}
    /\ Len(trace[t]) = 1

\* line 126 cut at the first None, as collecting into an Option would
FlattenUntilNone(o) ==
    IF o["banreservas"] = None THEN <<>>
    ELSE IF o["bhd"] = None THEN o["banreservas"]
    ELSE o["banreservas"] \o o["bhd"] \o o["popular"]

\* line 126 with a failed source handed on as a rate of zeros
FlattenWithDefaults(o) ==
    LET orZero(s) == IF o[s] = None THEN <<FetchedRate(s, s, 0, 0)>> ELSE o[s]
    IN  orZero("banreservas") \o orZero("bhd") \o orZero("popular")

\* [banreservas, bhd, popular].into_iter().flatten(), line 126
Flatten(o) == o["banreservas"] \o o["bhd"] \o o["popular"]

\* lines 120-126 with select! for join!: the for loop begins as soon as the
\* first fetcher has returned
JoinDoneEager(t) ==
    /\ cpc[t] = "fetch"
    /\ \E s \in Sources : fpc[t][s] = "done"
    /\ cpc' = [cpc EXCEPT ![t] = "persist"]
    /\ queue' = [queue EXCEPT ![t] = Flatten(out[t])]
    /\ UNCHANGED <<upPc, schedVars, fetchVars, dbVars, proxyUrl, parseVars>>

\* update_all_rates, lines 120-126: join! returns once the three fetchers have
JoinDone(t) ==
    /\ cpc[t] = "fetch"
    /\ \A s \in Sources : fpc[t][s] = "done"
    /\ cpc' = [cpc EXCEPT ![t] = "persist"]
    /\ queue' = [queue EXCEPT ![t] = Flatten(out[t])]
    /\ UNCHANGED <<upPc, schedVars, fetchVars, dbVars, proxyUrl, parseVars>>

\* a request or a body read of task t's cycle ends, the network answering
\* from the sets rs
FetchStep(t, rs) ==
    /\ \/ \E r \in rs.banreservas : BanreservasSend(t, r)
       \/ BanreservasBody(t)
       \/ \E r \in rs.bhd : BhdSend(t, r)
       \/ BhdBody(t)
       \/ \E r \in rs.proxy : PopularProxySend(t, r)
       \/ PopularProxyBody(t)
       \/ \E r \in rs.home : PopularHomeSend(t, r)
       \/ PopularHomeBody(t)
       \/ PopularScriptSend(t)
       \/ PopularHome2Send(t)
       \/ \E r \in rs.api : PopularApiSend(t, r)
       \/ PopularApiBody(t)
    /\ UNCHANGED <<schedVars, cpc, queue, upPc, dbVars, proxyUrl, parseVars>>

\* tokio::time::sleep: a delay of fetch_popular is over
TimerStep(t) ==
    /\ PopularSleep500(t) \/ PopularSleep300(t)
    /\ UNCHANGED <<schedVars, cpc, queue, upPc, dbVars, proxyUrl, parseVars>>

\* --------------------------------------------------------------- scheduler
\* rocket(), lines 155-157: the initial fetch begins
MainStart ==
    /\ mainPc = "start"
    /\ mainPc' = "initial"
    /\ StartCycle("main")
    /\ UNCHANGED <<now, updPc, deadline, lastEnd, queue, upPc, dbVars, proxyUrl, parseVars>>

\* update_all_rates returns: the for loop of lines 126-128 is over
CycleOver(t) == cpc[t] = "persist" /\ queue[t] = <<>> /\ upPc[t] = "exec"

\* update_all_rates has returned: its locals are gone
EndCycle(t) ==
    /\ cpc' = [cpc EXCEPT ![t] = "none"]
    /\ fpc' = [fpc EXCEPT ![t] = [s \in Sources |-> "idle"]]
    /\ out' = [out EXCEPT ![t] = [s \in Sources |-> None]]
    /\ trace' = [trace EXCEPT ![t] = <<>>]
    /\ proxyRes' = [proxyRes EXCEPT ![t] = "unset"]
    /\ UNCHANGED resp

\* rocket() with line 161 before line 157 is over: rate_updater is spawned
\* while the initial fetch is still running
MainSpawnEarly ==
    /\ mainPc = "initial"
    /\ mainPc' = "serving"
    /\ updPc' = "spawned"
    /\ UNCHANGED <<now, deadline, cycles, lastEnd, cpc, queue, upPc, fetchVars,
                   dbVars, proxyUrl, parseVars>>

\* rocket(), lines 157-161: the initial fetch is over, rate_updater is spawned
MainSpawn ==
    /\ mainPc = "initial" /\ CycleOver("main")
    /\ EndCycle("main")
    /\ mainPc' = "serving"
    /\ updPc' = "spawned"
    /\ lastEnd' = now
    /\ UNCHANGED <<now, deadline, cycles, queue, upPc, dbVars, proxyUrl, parseVars>>

\* rate_updater, line 134: interval(period), whose first tick is due at once
UpdaterStart ==
    /\ updPc = "spawned"
    /\ deadline' = now
    /\ updPc' = "tick"
    /\ UNCHANGED <<now, mainPc, cycles, lastEnd, cpc, queue, upPc, fetchVars,
                   dbVars, proxyUrl, parseVars>>

\* rate_updater, lines 136-138: ticker.tick().await returns once the deadline
\* is reached, the next deadline is one period after this one
\* (MissedTickBehavior::Burst), and a cycle begins
Tick ==
    /\ updPc = "tick" /\ now >= deadline /\ cycles < MaxCycles
    /\ deadline' = deadline + Period
    /\ updPc' = "cycle"
    /\ StartCycle("updater")
    /\ UNCHANGED <<now, mainPc, lastEnd, queue, upPc, dbVars, proxyUrl, parseVars>>

\* rate_updater, lines 138-140: the cycle is over, back to the ticker
UpdaterCycleDone ==
    /\ updPc = "cycle" /\ CycleOver("updater")
    /\ EndCycle("updater")
    /\ updPc' = "tick"
    /\ lastEnd' = now
    /\ UNCHANGED <<now, mainPc, deadline, cycles, queue, upPc, dbVars, proxyUrl,
                   parseVars>>

\* Time passes while the tasks wait: for the network in a cycle, or for the
\* ticker.  No step of a cycle reads the time, so it makes no difference when
\* in the cycle the time passes: it passes while the cycle's first requests
\* are outstanding.
Elapse ==
    /\ now < MaxTime
    /\ \/ \E t \in Tasks : FirstRequestsOut(t)
       \/ updPc = "tick" /\ now < deadline
    /\ now' = now + 1
    /\ UNCHANGED <<mainPc, updPc, deadline, cycles, lastEnd, cpc, queue, upPc,
                   fetchVars, dbVars, proxyUrl, parseVars>>

\* a step of the program that needs nothing from the network
ProgramStep ==
    \/ MainStart
    \/ MainSpawn
    \/ UpdaterStart
    \/ Tick
    \/ UpdaterCycleDone
    \/ \E t \in Tasks : JoinDone(t)
    \/ \E t \in Tasks : TimerStep(t)
    \/ \E t \in Tasks, ok \in BOOLEAN : UpsertExec(t, ok)
    \/ \E t \in Tasks, ok \in BOOLEAN : LogInsert(t, ok)

\* a request or a body read ends
NetworkStep == \E t \in Tasks : FetchStep(t, LeanResults)

Next == ProgramStep \/ NetworkStep \/ Elapse

\* The whole program: the initial cycle, then the updater's cycles.
Spec == Init /\ [][Next]_vars

\* The initial cycle alone, the network answering in every way it can.
CycleProgramStep ==
    \/ MainStart
    \/ JoinDone("main")
    \/ TimerStep("main")
    \/ \E ok \in BOOLEAN : UpsertExec("main", ok)
    \/ \E ok \in BOOLEAN : LogInsert("main", ok)

CycleNext == CycleProgramStep \/ FetchStep("main", Results) \/ Elapse

CycleSpec == Init /\ [][CycleNext]_vars

\* The runtime polls a task that can run, and delays and database statements
\* end; nothing makes a request end (Client::new() sets no timeout).
CycleFairSpec == CycleSpec /\ WF_vars(CycleProgramStep)

\* -------------------------------------------------------------- extractors
\* The extractors alone, on every text of up to a few tokens.
SeqsUpTo(S, n) == UNION {[1..k -> S] : k \in 0..n}

HtmlTokens ==
    {Tok("Compra", 0), Tok("Venta", 0), Tok("dec", 0), Tok("dec", 1), Tok("dec", 2),
     Tok("int", 1), Tok("txt", 0)}
XmlElements ==
    {Elem(tag, c.k, c.v) :
        tag \in {"DollarBuyRate", "DollarSellRate"},
        c \in {Tok("dec", 0), Tok("dec", 1), Tok("dec", 2), Tok("int", 3), Tok("txt", 0)}}
    \cup {Elem("Title", "txt", 0)}
JsonEntries ==
    {JsonEntry(c, b, x) :
        c \in {"USD", "EUR"},
        b \in {Tok("dec", 0), Tok("dec", 1), Tok("txt", 0)},
        x \in {Tok("int", 2), Tok("txt", 0)}}

\* an input is [src, ok, body]: for bhd the JSON document [ok, rates |-> body]
ParseInputs ==
    {[src |-> "banreservas", ok |-> TRUE, body |-> b] :
        b \in SeqsUpTo(HtmlTokens, MaxHtmlLen)}
    \cup {[src |-> "popular", ok |-> TRUE, body |-> b] :
             b \in SeqsUpTo(XmlElements, MaxXmlLen)}
    \cup {[src |-> "bhd", ok |-> TRUE, body |-> b] :
             b \in SeqsUpTo(JsonEntries, MaxJsonLen)}
    \cup {[src |-> "bhd", ok |-> FALSE, body |-> <<>>]}

\* the extraction of each source, as its fetcher applies it to a body
Extractor(in) ==
    CASE in.src = "banreservas" -> ParseBanreservas(in.body)
      [] in.src = "bhd" -> ParseBhd([ok |-> in.ok, rates |-> in.body])
      [] in.src = "popular" -> parse_popular_xml(in.body)

ParseInit ==
    /\ pin \in ParseInputs
    /\ pout = <<>>
    /\ now = 0 /\ proxyUrl = FALSE /\ mainPc = "start" /\ updPc = "unspawned"
    /\ deadline = 0 /\ cycles = 0 /\ lastEnd = 0
    /\ cpc = [t \in Tasks |-> "none"]
    /\ fpc = [t \in Tasks |-> [s \in Sources |-> "idle"]]
    /\ resp = [t \in Tasks |-> [s \in Sources |-> None]]
    /\ out = [t \in Tasks |-> [s \in Sources |-> None]]
    /\ trace = [t \in Tasks |-> <<>>]
    /\ proxyRes = [t \in Tasks |-> "unset"]
    /\ queue = [t \in Tasks |-> <<>>]
    /\ upPc = [t \in Tasks |-> "exec"]
    /\ store = {} /\ log = <<>> /\ dbNow = 1
    /\ lastGood = [s \in Sources |-> None]

\* the extractor of pin.src is applied to pin.body
Extract ==
    /\ pin.src # "none" /\ pout = <<>>
    /\ pout' = <<Extractor(pin)>>
    /\ UNCHANGED <<pin, now, proxyUrl, mainPc, updPc, deadline, cycles, lastEnd, cpc, fpc,
                   resp, out, trace, proxyRes, queue, upPc, store, log, dbNow,
                   lastGood>>

ParseSpec == ParseInit /\ [][Extract]_vars

\* ----------------------------------------------------------------- writers
\* upsert_rate called by two cycles at once on one database, each with the
\* rates its fetchers returned: the for loops of lines 126-128 interleave
\* statement by statement.
Fetched ==
    [banreservas |-> {None, ParseBanreservas(HtmlRates)},
     bhd |-> {None, ParseBhd(JsonRates)},
     popular |-> {None, parse_popular_xml(XmlRatesA), parse_popular_xml(XmlRatesB)}]

WriterInit ==
    /\ out \in [Tasks -> {o \in [Sources -> UNION {Fetched[s] : s \in Sources}] :
                            \A s \in Sources : o[s] \in Fetched[s]}]
    /\ queue = [t \in Tasks |-> Flatten(out[t])]
    /\ cpc = [t \in Tasks |-> "persist"]
    /\ fpc = [t \in Tasks |-> [s \in Sources |-> "done"]]
    /\ now = 0 /\ proxyUrl = FALSE /\ mainPc = "initial" /\ updPc = "cycle"
    /\ deadline = Period /\ cycles = 2 /\ lastEnd = 0
    /\ resp = [t \in Tasks |-> [s \in Sources |-> None]]
    /\ trace = [t \in Tasks |-> <<>>]
    /\ proxyRes = [t \in Tasks |-> "unset"]
    /\ upPc = [t \in Tasks |-> "exec"]
    /\ store = {} /\ log = <<>> /\ dbNow = 1
    /\ lastGood = [s \in Sources |-> None]
    /\ pin = NoInput /\ pout = <<>>

WriterNext ==
    \/ \E t \in Tasks, ok \in BOOLEAN : UpsertExec(t, ok)
    \/ \E t \in Tasks, ok \in BOOLEAN : LogInsert(t, ok)

WriterSpec == WriterInit /\ [][WriterNext]_vars

\* ------------------------------------------------------------------ claims
Range(q) == {q[i] : i \in DOMAIN q}
RowsOf(s) == {x \in store : x.bank_class = s}
RateOf(x) == FetchedRate(x.bank_name, x.bank_class, x.dollar_buy_rate,
                         x.dollar_sell_rate)

\* the rates in queue[t] are those the fetchers of task t returned
HandedExactly(t) ==
    \A s \in Sources :
        /\ Cardinality({i \in DOMAIN queue[t] : queue[t][i].bank_class = s})
              = IF out[t][s] = None THEN 0 ELSE 1
        /\ out[t][s] # None => out[t][s][1] \in Range(queue[t])

\* C1: when join! returns, whichever sources failed, the rates handed to the
\* for loop are exactly one rate for each source whose fetcher returned one,
\* that very rate, and none for a source whose fetcher failed.
C1_FailureIsolation ==
    [][\A t \in Tasks :
          cpc[t] = "fetch" /\ cpc'[t] = "persist"
          => /\ \A s \in Sources : fpc[t][s] = "done"
             /\ HandedExactly(t)'
             /\ Len(queue'[t]) = Cardinality({s \in Sources : out[t][s] # None})]_vars

C1_Witness ==
    /\ cpc["main"] = "persist"
    /\ out["main"]["banreservas"] = None
    /\ out["main"]["bhd"] # None
    /\ out["main"]["popular"] # None
    /\ Len(queue["main"]) = 2

\* C2: every cycle that starts completes, whatever the network does.
C2_CycleCompletes == (cpc["main"] = "fetch") ~> CycleOver("main")

\* no two rows of the store share a bank_class
KeyUnique == \A x, y \in store : x.bank_class = y.bank_class => x = y

\* this step is an upsert statement of task t that succeeded
UpsertDone(t) == upPc[t] = "exec" /\ upPc'[t] = "log"

\* C3: the store never holds two rows of one bank_class; an upsert of a rate
\* whose bank_class is not stored adds exactly one row; an upsert of the rate
\* a row already holds leaves that one row with the same name, buy and sell
\* and a later updated_at.
C3_UpsertIdempotent ==
    /\ []KeyUnique
    /\ [][\A t \in Tasks :
            UpsertDone(t) =>
              LET rate == Head(queue[t])
                  old == RowsOf(rate.bank_class)
                  new == {x \in store' : x.bank_class = rate.bank_class}
              IN  /\ Cardinality(new) = 1
                  /\ \A x \in new : RateOf(x) = rate
                  /\ {x \in store' : x.bank_class # rate.bank_class}
                        = {x \in store : x.bank_class # rate.bank_class}
                  /\ old = {} => Cardinality(store') = Cardinality(store) + 1
                  /\ \A x \in old : RateOf(x) = rate =>
                        /\ Cardinality(store') = Cardinality(store)
                        /\ \A y \in new : y.updated_at > x.updated_at]_vars

C3_Witness ==
    /\ upPc["updater"] = "log"
    /\ Head(queue["updater"]).bank_class = "banreservas"
    /\ Len(log) >= 1 /\ log[1] = Head(queue["updater"])
    /\ \E x \in store : x.bank_class = "banreservas" /\ x.updated_at > 1

\* C4: a source that no cycle has fetched and stored has no row; otherwise its
\* row holds the rate of the last cycle that fetched and stored it; and the
\* rows of a source change only in the upsert of a rate fetched for it.
C4_StaleRetention ==
    /\ [](\A s \in Sources :
            /\ lastGood[s] = None => RowsOf(s) = {}
            /\ lastGood[s] # None =>
                  RowsOf(s) # {} /\ \A x \in RowsOf(s) : RateOf(x) = lastGood[s][1])
    /\ [][\A s \in Sources :
            RowsOf(s)' # RowsOf(s) =>
               \E t \in Tasks :
                  /\ UpsertDone(t)
                  /\ out[t][s] # None
                  /\ Head(queue[t]) = out[t][s][1]]_vars

C4_Witness ==
    /\ cycles >= 2
    /\ CycleOver("updater")
    /\ out["updater"]["popular"] = None
    /\ \E x \in store : x.bank_class = "popular" /\ x.updated_at <= 3
    /\ \E x \in store : x.bank_class = "bhd" /\ x.updated_at > 3

\* element i of xml is its only element `tag`, and holds a number
OnlyElement(xml, tag, i) ==
    /\ i \in DOMAIN xml /\ xml[i].tag = tag /\ IsNum(xml[i])
    /\ \A j \in DOMAIN xml : xml[j].tag = tag => j = i

\* C5: when the proxy is configured and answers with a success status and an
\* XML body holding one numeric DollarBuyRate and one numeric DollarSellRate,
\* fetch_popular returns the rate of class "popular" with those two values,
\* and in that cycle it begins no step of the direct chain.
C5_ProxyShortCircuits ==
    /\ [](\A t \in Tasks : proxyRes[t] = "body_ok" => trace[t] = <<"proxy">>)
    /\ [][\A t \in Tasks :
            /\ Fetching(t, "popular", "proxy_body")
            /\ fpc'[t]["popular"] # "proxy_body"
            /\ resp[t]["popular"][1].readable
            => \A i, j \in DOMAIN resp[t]["popular"][1].body :
                  LET xml == resp[t]["popular"][1].body
                  IN  OnlyElement(xml, "DollarBuyRate", i)
                      /\ OnlyElement(xml, "DollarSellRate", j)
                      => /\ fpc'[t]["popular"] = "done"
                         /\ out'[t]["popular"] =
                               Some(FetchedRate("Banco Popular", "popular",
                                                xml[i].v, xml[j].v))
                         /\ trace'[t] = <<"proxy">>]_vars

C5_Witness ==
    /\ proxyUrl
    /\ fpc["main"]["popular"] = "done"
    /\ proxyRes["main"] = "body_ok"
    /\ out["main"]["popular"] = Some(FetchedRate("Banco Popular", "popular", 3, 4))
    /\ trace["main"] = <<"proxy">>

\* C6: when the proxy answers with a non-success status, fetch_popular goes on
\* to the direct chain, and what it returns is what the direct chain comes to:
\* None when the homepage or the API request fails or the API's status is not
\* a success, else what the API's body is parsed to.
C6_ProxyBadStatusFallsThrough ==
    /\ [](\A t \in Tasks :
            proxyRes[t] = "status_bad" =>
               /\ Len(trace[t]) >= 2 /\ trace[t][2] = "home"
               /\ fpc[t]["popular"] = "done" /\ out[t]["popular"] # None
                     => trace[t][Len(trace[t])] = "api")
    /\ [][\A t \in Tasks :
            /\ proxyRes[t] = "status_bad"
            /\ fpc[t]["popular"] # "done" /\ fpc'[t]["popular"] = "done"
            => /\ fpc[t]["popular"] \in {"home_send", "api_send", "api_body"}
               /\ fpc[t]["popular"] # "api_body" => out'[t]["popular"] = None
               /\ fpc[t]["popular"] = "api_body" =>
                     LET r == resp[t]["popular"][1]
                     IN  out'[t]["popular"] =
                            IF r.readable THEN parse_popular_xml(r.body) ELSE None]_vars

C6_Witness ==
    /\ proxyRes["main"] = "status_bad"
    /\ fpc["main"]["popular"] = "done"
    /\ out["main"]["popular"] # None
    /\ trace["main"][1] = "proxy"

\* C7: when the proxy request fails, or the proxy's body cannot be read,
\* fetch_popular goes on to the direct chain.
C7_ProxyErrorFallsThrough ==
    \A t \in Tasks :
        proxyRes[t] \in {"send_error", "body_error"} =>
            Len(trace[t]) >= 2 /\ trace[t][2] = "home"

\* the body holds what the extraction of source s looks for
WellShaped(s, body) ==
    IF s = "banreservas"
    THEN \E i, j \in DOMAIN body :
            /\ j >= i + 2 /\ j < Len(body)
            /\ body[i].k = "Compra" /\ IsDec(body[i + 1])
            /\ body[j].k = "Venta" /\ IsDec(body[j + 1])
    ELSE /\ JsonDecodes(body)
         /\ \E i \in DOMAIN body.rates : body.rates[i].currency = "USD"

\* C8: a simple source returns a rate only from a response with a success
\* status whose body was read and has the expected shape; it sends one
\* request and reads one body.
C8_SimpleSourceFailsOnBadResponse ==
    [][\A t \in Tasks, s \in SimpleSources :
          /\ fpc[t][s] # fpc'[t][s] =>
                <<fpc[t][s], fpc'[t][s]>> \in
                   {<<"idle", "send">>, <<"send", "body">>, <<"send", "done">>,
                    <<"body", "done">>, <<"done", "idle">>, <<"done", "send">>}
          /\ fpc'[t][s] = "done" /\ fpc[t][s] # "done" /\ out'[t][s] # None
             => /\ fpc[t][s] = "body"
                /\ is_success(resp[t][s][1].status)
                /\ resp[t][s][1].readable
                /\ WellShaped(s, resp[t][s][1].body)]_vars

\* the text `in` holds a buy and a sell number, and `rate` carries them
BothResolved(in, rate) ==
    CASE in.src = "banreservas" ->
            \E i, j \in DOMAIN in.body :
               /\ j >= i + 2 /\ j < Len(in.body)
               /\ in.body[i].k = "Compra" /\ IsDec(in.body[i + 1])
               /\ in.body[j].k = "Venta" /\ IsDec(in.body[j + 1])
               /\ rate.dollar_buy_rate = in.body[i + 1].v
               /\ rate.dollar_sell_rate = in.body[j + 1].v
      [] in.src = "popular" ->
            \E i, j \in DOMAIN in.body :
               /\ in.body[i].tag = "DollarBuyRate" /\ IsNum(in.body[i])
               /\ in.body[j].tag = "DollarSellRate" /\ IsNum(in.body[j])
               /\ rate.dollar_buy_rate = in.body[i].v
               /\ rate.dollar_sell_rate = in.body[j].v
      [] in.src = "bhd" ->
            /\ in.ok
            /\ \E i \in DOMAIN in.body :
                  /\ in.body[i].currency = "USD"
                  /\ IsNum(in.body[i].buy) /\ IsNum(in.body[i].sell)
                  /\ rate.dollar_buy_rate = in.body[i].buy.v
                  /\ rate.dollar_sell_rate = in.body[i].sell.v

\* C9: an extractor returns a rate only when the text holds both a buy and a
\* sell number where the source puts them, and the rate carries those numbers.
C9_NoPartialResults ==
    pout # <<>> /\ pout[1] # None =>
        /\ pout[1][1].bank_class = pin.src
        /\ BothResolved(pin, pout[1][1])

C9_Witness ==
    /\ pin.src = "popular"
    /\ pin.body = <<Elem("Title", "txt", 0), Elem("DollarBuyRate", "dec", 1)>>
    /\ pout = <<None>>

\* C10: no second cycle begins before one period has passed since the start.
C10_SecondCycleAfterPeriod == cycles >= 2 => now >= Period


\* a cycle of task t is running: from its start to the return of
\* update_all_rates
Running(t) == cpc[t] # "none"

\* C11: at most one cycle is running, and a cycle starts only when none is:
\* the cycle before it has finished its fetches and its upserts.
C11_NoOverlappingCycles ==
    /\ [](Cardinality({t \in Tasks : Running(t)}) <= 1)
    /\ [][cycles' # cycles =>
            /\ \A t \in Tasks : ~Running(t)
            /\ \A t \in Tasks : queue[t] = <<>> /\ upPc[t] = "exec"
            /\ Cardinality({t \in Tasks : Running(t)'}) = 1]_vars

C11_Witness ==
    /\ cycles = 3
    /\ Running("updater") /\ ~Running("main")
    /\ Cardinality(store) = 3

\* C12: a cycle of rate_updater that follows another starts no sooner than
\* one period after the end of the cycle before it.
C12_NoCatchUp ==
    [][cycles >= 2 /\ cycles' = cycles + 1 => now >= lastEnd + Period]_vars


\* this step is an upsert statement of task t that failed
UpsertFailed(t) ==
    /\ cpc[t] = "persist" /\ upPc[t] = "exec" /\ upPc'[t] = "exec"
    /\ queue'[t] # queue[t]

\* C13: a failing upsert leaves the store and the history as they are and
\* neither the cycle nor the scheduler ends with it; the for loop goes on
\* with the rates after the failed one, one at a time, and update_all_rates
\* returns only when none is left.
C13_WriterFailureContained ==
    [][\A t \in Tasks :
          /\ UpsertFailed(t) =>
                /\ store' = store /\ log' = log
                /\ cpc'[t] = "persist"
                /\ mainPc' = mainPc /\ updPc' = updPc
          /\ cpc[t] = "persist" /\ queue'[t] # queue[t] =>
                queue'[t] = Tail(queue[t])
          /\ cpc[t] = "persist" /\ cpc'[t] # "persist" =>
                queue[t] = <<>> /\ upPc[t] = "exec"]_vars

C13_Witness ==
    /\ cpc["updater"] = "persist"
    /\ out["updater"]["banreservas"] # None /\ out["updater"]["bhd"] # None
    /\ upPc["updater"] = "log" /\ Head(queue["updater"]).bank_class = "bhd"
    /\ \E x \in RowsOf("banreservas") : x.updated_at = 1
    /\ \E x \in RowsOf("bhd") : x.updated_at = dbNow - 1


\* this step is the end of task t's insert into bank_rates_log
LogStep(t) == cpc[t] = "persist" /\ upPc[t] = "log" /\ upPc'[t] = "exec"

\* C14: the history changes only by one entry appended at its end, in the
\* log insert that follows a successful upsert, the entry being the rate
\* just upserted, which the store holds; a failed upsert appends nothing;
\* the log insert, failing or not, leaves the store as it is and the for
\* loop goes on with the next rate.
C14_HistoryBestEffort ==
    [][/\ log' # log =>
            \E t \in Tasks :
               /\ LogStep(t)
               /\ log' = Append(log, Head(queue[t]))
               /\ \E x \in store : RateOf(x) = Head(queue[t])
       /\ Len(log') >= Len(log) /\ SubSeq(log', 1, Len(log)) = log
       /\ \A t \in Tasks :
            /\ UpsertFailed(t) => log' = log
            /\ LogStep(t) =>
                  /\ store' = store
                  /\ queue'[t] = Tail(queue[t])
                  /\ cpc'[t] = "persist"]_vars

C14_Witness ==
    /\ cpc["main"] = "persist" /\ upPc["main"] = "exec"
    /\ Len(queue["main"]) = 1 /\ Head(queue["main"]).bank_class = "popular"
    /\ RowsOf("banreservas") # {} /\ RowsOf("bhd") # {}
    /\ log = <<FetchedRate("BHD", "bhd", 1, 2)>>


\* C15: with two cycles writing at once, every row of the store is, name,
\* buy and sell together, one rate that one of the cycles fetched for the
\* row's bank_class, and no bank_class has two rows.
C15_NoTornRecords ==
    /\ \A x \in store :
          \E t \in Tasks : out[t][x.bank_class] = Some(RateOf(x))
    /\ \A x, y \in store : x.bank_class = y.bank_class => x = y

C15_Witness ==
    /\ out["main"]["popular"] = Some(FetchedRate("Banco Popular", "popular", 1, 2))
    /\ out["updater"]["popular"] = Some(FetchedRate("Banco Popular", "popular", 3, 4))
    /\ log = <<out["updater"]["popular"][1], out["main"]["popular"][1]>>
    /\ \E x \in RowsOf("popular") :
          RateOf(x) = out["updater"]["popular"][1] /\ x.updated_at >= 2


\* C16: every rate an extractor returns has a buy and a sell rate above zero.
C16_RatesPositive ==
    pout # <<>> /\ pout[1] # None =>
        pout[1][1].dollar_buy_rate > 0 /\ pout[1][1].dollar_sell_rate > 0

\* C18: when the proxy answers with a success status and a body that does not
\* parse into both rates, fetch_popular goes on to the direct chain before it
\* returns without a rate.
C18_ProxyUnparsableFallsThrough ==
    \A t \in Tasks :
        /\ proxyRes[t] = "body_ok"
        /\ fpc[t]["popular"] = "done" /\ out[t]["popular"] = None
        => Len(trace[t]) >= 2 /\ trace[t][2] = "home"


\* the direct chain of fetch_popular, with and without the challenge request
DirectWithScript == <<"home", "script", "sleep_500", "home2", "sleep_300", "api">>
DirectNoScript == <<"home", "sleep_500", "home2", "sleep_300", "api">>
IsPrefix(p, q) == Len(p) <= Len(q) /\ SubSeq(q, 1, Len(p)) = p
\* the steps begun after the proxy request, if there was one
DirectPart(tr) == IF tr # <<>> /\ tr[1] = "proxy" THEN Tail(tr) ELSE tr

\* C19: the steps of the direct chain begin in the order homepage, challenge
\* request (if any), first delay, homepage again, second delay, API request,
\* and the API request is out only when all before it have been; the
\* challenge request is made exactly when the homepage links the script, and
\* without it the first delay follows; however the challenge request and the
\* second homepage request end, the next delay follows and nothing is
\* returned.
C19_DirectChainOrder ==
    /\ [](\A t \in Tasks :
            /\ \/ IsPrefix(DirectPart(trace[t]), DirectWithScript)
               \/ IsPrefix(DirectPart(trace[t]), DirectNoScript)
            /\ fpc[t]["popular"] \in {"api_send", "api_body"} =>
                  DirectPart(trace[t]) \in {DirectWithScript, DirectNoScript})
    /\ [][\A t \in Tasks :
            LET pc == fpc[t]["popular"]
                pc2 == fpc'[t]["popular"]
            IN  /\ pc = "home_body" /\ pc2 # pc =>
                      LET r == resp[t]["popular"][1]
                      IN  /\ pc2 \in {"script_send", "sleep_500"}
                          /\ pc2 = "script_send" <=>
                                r.readable /\ HasChallengeScript(r.body)
                /\ pc = "script_send" /\ pc2 # pc => pc2 = "sleep_500"
                /\ pc = "sleep_500" /\ pc2 # pc => pc2 = "home2_send"
                /\ pc = "home2_send" /\ pc2 # pc => pc2 = "sleep_300"
                /\ pc = "sleep_300" /\ pc2 # pc => pc2 = "api_send"]_vars

C19_Witness ==
    /\ ~proxyUrl
    /\ trace["main"] = DirectNoScript
    /\ fpc["main"]["popular"] = "done"
    /\ out["main"]["popular"] # None


\* the place of a source in [banreservas, bhd, popular]
Rank(s) == CASE s = "banreservas" -> 1 [] s = "bhd" -> 2 [] s = "popular" -> 3

\* C20: while a cycle upserts, its three fetchers have all returned; the
\* rates it has yet to upsert are at most three, of the three sources, one
\* per source at most, in the order banreservas, bhd, popular; and the store
\* changes only in the upsert of the first of them, in the row of its source.
C20_FetchThenPersist ==
    /\ [](\A t \in Tasks :
            /\ cpc[t] = "persist" => \A s \in Sources : fpc[t][s] = "done"
            /\ cpc[t] # "persist" => queue[t] = <<>> /\ upPc[t] = "exec"
            /\ Len(queue[t]) <= 3
            /\ \A i \in DOMAIN queue[t] : queue[t][i].bank_class \in Sources
            /\ \A i, j \in DOMAIN queue[t] :
                  i < j => Rank(queue[t][i].bank_class) < Rank(queue[t][j].bank_class))
    /\ [][store' # store =>
            \E t \in Tasks :
               /\ cpc[t] = "persist" /\ UpsertDone(t)
               /\ \A s \in Sources : fpc[t][s] = "done"
               /\ \A s \in Sources :
                     s # Head(queue[t]).bank_class => RowsOf(s)' = RowsOf(s)]_vars

C20_Witness ==
    /\ cpc["main"] = "persist" /\ upPc["main"] = "exec"
    /\ Len(queue["main"]) = 2
    /\ queue["main"][1].bank_class = "bhd" /\ queue["main"][2].bank_class = "popular"
    /\ RowsOf("banreservas") # {} /\ Cardinality(store) = 1

=============================================================================
